---- MODULE Spec2Model ----
(***************************************************************************)
(* Model of caris.carisbatch: the command engine CarisBatchCommand         *)
(* (config / _set_config / _update_settings / get_cmd / run) applied to a  *)
(* handful of operation descriptors taken from the catalog.                *)
(*                                                                         *)
(* Python values are tagged records [t |-> type name, v |-> payload], a    *)
(* dict is the sequence of its items in insertion order, and a str is a    *)
(* TLA+ string handled character by character.                             *)
(***************************************************************************)
EXTENDS Integers, Sequences, FiniteSets, TLC

(***************************************************************************)
(* Bounds of the model.                                                    *)
(***************************************************************************)
\* largest number of keyword arguments of one config call
MaxKwargs == 2

(***************************************************************************)
(* Python values.                                                          *)
(***************************************************************************)
PyNone == [t |-> "NoneType"]
PyStr(s) == [t |-> "str", v |-> s]
PyInt(i) == [t |-> "int", v |-> i]
PyBool(b) == [t |-> "bool", v |-> b]
PyList(xs) == [t |-> "list", v |-> xs]
PyDict(items) == [t |-> "dict", v |-> items]
PyTuple(xs) == [t |-> "tuple", v |-> xs]
\* a float, held as the text str() gives it
PyFloat(text) == [t |-> "float", v |-> text]
\* a generator object, held as the values it has yet to yield
PyGen(xs) == [t |-> "generator", v |-> xs]
\* a pathlib path object
PyPath(p) == [t |-> "pathlib.PosixPath", v |-> p]

\* bool(value): the truth value Python gives a value in `if value:`
Truthy(x) ==
    CASE x.t = "NoneType" -> FALSE
      [] x.t = "bool" -> x.v
      [] x.t = "int" -> x.v # 0
      [] x.t = "str" -> x.v # ""
      [] x.t = "float" -> x.v # "0.0"
      [] x.t = "list" -> x.v # <<>>
      [] x.t = "tuple" -> x.v # <<>>
      [] x.t = "dict" -> x.v # <<>>
      [] OTHER -> TRUE

\* a == b on Python values: bool is a subclass of int, so True == 1
PyEq(a, b) ==
    IF a.t \in {"bool", "int"} /\ b.t \in {"bool", "int"}
    THEN (IF a.t = "bool" THEN (IF a.v THEN 1 ELSE 0) ELSE a.v)
         = (IF b.t = "bool" THEN (IF b.v THEN 1 ELSE 0) ELSE b.v)
    ELSE a.t = b.t /\ (a.t = "NoneType" \/ a.v = b.v)

\* str(value) as used by the f-strings
PyToStr(x) ==
    CASE x.t = "NoneType" -> "None"
      [] x.t = "bool" -> (IF x.v THEN "True" ELSE "False")
      [] x.t = "int" -> ToString(x.v)
      [] x.t = "str" -> x.v
      [] x.t = "float" -> x.v
      [] OTHER -> "<object>"

(***************************************************************************)
(* str methods, character by character.                                    *)
(***************************************************************************)
LowerCase == "abcdefghijklmnopqrstuvwxyz"
UpperCase == "ABCDEFGHIJKLMNOPQRSTUVWXYZ"

CharAt(s, i) == SubSeq(s, i, i)

\* each lower-case letter with its upper-case form
LowerToUpper ==
    [c \in {CharAt(LowerCase, i) : i \in 1..Len(LowerCase)} |->
        CharAt(UpperCase, CHOOSE i \in 1..Len(LowerCase) : CharAt(LowerCase, i) = c)]

\* the upper-case form of one character
UpperChar(c) == IF c \in DOMAIN LowerToUpper THEN LowerToUpper[c] ELSE c

RECURSIVE StrUpper(_)
\* str.upper()
StrUpper(s) ==
    IF s = "" THEN "" ELSE UpperChar(Head(s)) \o StrUpper(Tail(s))

RECURSIVE StrReplace(_, _, _)
\* str.replace(old, new) for a one-character old
StrReplace(s, old, new) ==
    IF s = "" THEN ""
    ELSE (IF Head(s) = old THEN new ELSE Head(s)) \o StrReplace(Tail(s), old, new)

RECURSIVE StrLstrip(_, _)
\* str.lstrip(c): every leading occurrence of the character c is removed
StrLstrip(s, c) ==
    IF s # "" /\ Head(s) = c THEN StrLstrip(Tail(s), c) ELSE s

\* s.endswith(suffix)
StrEndswith(s, suffix) ==
    /\ Len(s) >= Len(suffix)
    /\ SubSeq(s, Len(s) - Len(suffix) + 1, Len(s)) = suffix

RECURSIVE StrJoin(_, _)
\* sep.join(parts)
StrJoin(sep, parts) ==
    IF parts = <<>> THEN ""
    ELSE IF Len(parts) = 1 THEN parts[1]
    ELSE parts[1] \o sep \o StrJoin(sep, Tail(parts))

(***************************************************************************)
(* dict operations on item sequences <<[k |-> key, v |-> value], ...>>.    *)
(***************************************************************************)
DictKeys(d) == {d[i].k : i \in 1..Len(d)}

DictHas(d, key) == key \in DictKeys(d)

\* d[key] for a key that is present
DictAt(d, key) == d[CHOOSE i \in 1..Len(d) : d[i].k = key].v

\* d.get(key, default)
DictGet(d, key, default) == IF DictHas(d, key) THEN DictAt(d, key) ELSE default

\* d[key] = value: an existing key keeps its position, a new key is appended
DictSet(d, key, value) ==
    IF DictHas(d, key)
    THEN [i \in 1..Len(d) |-> IF d[i].k = key THEN [k |-> key, v |-> value] ELSE d[i]]
    ELSE Append(d, [k |-> key, v |-> value])

RECURSIVE DictMerge(_, _)
\* {**a, **b}
DictMerge(a, b) ==
    IF b = <<>> THEN a ELSE DictMerge(DictSet(a, b[1].k, b[1].v), Tail(b))

Item(key, value) == [k |-> key, v |-> value]

\* a dict literal whose values are all None
NoneDict(keys) == [i \in 1..Len(keys) |-> Item(keys[i], PyNone)]

(***************************************************************************)
(* The operation catalog: the descriptors of the operation classes the     *)
(* model instantiates (class attributes _command, _option_key,             *)
(* _common_settings, _option_registry with the nested default_settings).   *)
(***************************************************************************)
Classes == {"ThinPoints", "AssignSoundingSCAMINValues", "UpdateBandValues",
            "ValidateCoverage", "GridPointsUsingCUBE", "AddFeatures",
            "ImportCZMILToSurvey"}

\* _command
command(c) == c

\* _option_key
option_key(c) ==
    CASE c = "ThinPoints" -> PyStr("method")
      [] c = "UpdateBandValues" -> PyStr("band-type")
      [] OTHER -> PyNone

\* _common_settings
common_settings(c) ==
    CASE c = "ThinPoints" -> NoneDict(<<"method", "include_band", "comments">>)
      [] c = "AssignSoundingSCAMINValues" ->
            NoneDict(<<"feature_catalogue", "map_scale", "scaling_parameters_file">>)
      [] c = "UpdateBandValues" ->
            NoneDict(<<"band_type", "expression", "geometry", "geometry_file",
                       "geometry_type">>)
      [] c = "ValidateCoverage" -> <<>>
      [] c = "AddFeatures" ->
            NoneDict(<<"keep_foid", "require_all", "feature_catalogue",
                       "map_undefined_attribute_value", "map_known_attribute_value",
                       "verified", "input_crs", "overwrite">>)
      [] c = "ImportCZMILToSurvey" ->
            << Item("mission_execution_file", PyNone), Item("camera_raw_folder", PyNone),
               Item("processing_folder", PyNone), Item("survey_name", PyNone),
               Item("buffer_time", PyNone), Item("sbet_files", PyList(<<>>)),
               Item("sbet_rms_files", PyList(<<>>)), Item("output_crs", PyNone) >>
      [] c = "GridPointsUsingCUBE" ->
            NoneDict(<<"resolution", "extent", "anchor", "output_crs",
                       "output_vertical_crs", "input_band", "primary_band",
                       "vertical_uncertainty", "horizontal_uncertainty",
                       "disambiguation_method", "cube_config_file",
                       "cube_config_name", "cube_config_settings", "iho_order",
                       "iho_limits", "use_chgf_distance", "comments">>)

\* _option_registry: registry key -> default_settings of the nested class
option_registry(c) ==
    CASE c = "ThinPoints" ->
            << Item("RANDOM", NoneDict(<<"percentage">>)),
               Item("MINIMUM_DISTANCE", NoneDict(<<"minimum_distance", "scale">>)),
               Item("APPLY_BIAS", NoneDict(<<"input_band", "bias", "minimum_distance",
                                             "scale", "apply_designated">>)) >>
      [] c = "AssignSoundingSCAMINValues" -> << Item("ASSIGNSOUNDINGSCAMINVALUES", <<>>) >>
      [] c = "UpdateBandValues" ->
            << Item("NUMERIC", NoneDict(<<"input_band", "value">>)),
               Item("STATUS", NoneDict(<<"value">>)) >>
      [] c = "ValidateCoverage" -> << Item("VALIDATECOVERAGE", <<>>) >>
      [] c = "GridPointsUsingCUBE" -> << Item("GRIDPOINTUSINGCUBE", <<>>) >>
      [] c = "AddFeatures" -> << Item("ADDFEATURES", <<>>) >>
      [] c = "ImportCZMILToSurvey" -> << Item("IMPORTCZMILTOSURVEY", <<>>) >>

(***************************************************************************)
(* Exceptions and outcomes of a call.                                      *)
(***************************************************************************)
NoExc == [type |-> "none", msg |-> ""]
Raise(type, msg) == [type |-> type, msg |-> msg]
CarisBatchError(msg) == Raise("CarisBatchError", msg)

(***************************************************************************)
(* CarisBatchCommand.config and its helpers.  Each returns the value of    *)
(* self.settings it leaves behind and the exception it raises, if any.     *)
(***************************************************************************)
RECURSIVE update_settings_accepting(_, _, _)
\* _update_settings without its `else: raise`: an unknown key is stored
update_settings_accepting(c, settings, kwargs) ==
    IF kwargs = <<>> THEN [settings |-> settings, exc |-> NoExc]
    ELSE update_settings_accepting(c,
            PyDict(DictSet(settings.v, kwargs[1].k, kwargs[1].v)), Tail(kwargs))

RECURSIVE update_settings(_, _, _)
\* _update_settings(kwargs): keys are applied in order up to the first
\* key that is not in self.settings
update_settings(c, settings, kwargs) ==
    IF kwargs = <<>> THEN [settings |-> settings, exc |-> NoExc]
    ELSE IF DictHas(settings.v, kwargs[1].k)
    THEN update_settings(c, PyDict(DictSet(settings.v, kwargs[1].k, kwargs[1].v)),
                         Tail(kwargs))
    ELSE [settings |-> settings,
          exc |-> CarisBatchError("Invalid setting: '" \o kwargs[1].k
                     \o "' is not a valid option for "
                     \o PyToStr(IF option_key(c).t = "str"
                                THEN DictGet(settings.v, option_key(c).v, PyStr("unknown"))
                                ELSE PyStr("unknown")))]

\* _set_config that builds the mapping from the variant's defaults alone
set_config_variant_only(c, settings, option, kwargs) ==
    IF option.t # "str"
    THEN [settings |-> settings,
          exc |-> Raise("AttributeError", "'" \o option.t
                            \o "' object has no attribute 'upper'")]
    ELSE IF ~DictHas(option_registry(c), StrUpper(option.v))
    THEN [settings |-> settings,
          exc |-> CarisBatchError("Unsupported option: " \o option.v)]
    ELSE update_settings(c, PyDict(DictAt(option_registry(c), StrUpper(option.v))),
                         kwargs)

\* _set_config that stores the base settings ahead of the variant lookup
set_config_common_first(c, settings, option, kwargs) ==
    IF option.t # "str"
    THEN [settings |-> settings,
          exc |-> Raise("AttributeError", "'" \o option.t
                            \o "' object has no attribute 'upper'")]
    ELSE IF ~DictHas(option_registry(c), StrUpper(option.v))
    THEN [settings |-> PyDict(common_settings(c)),
          exc |-> CarisBatchError("Unsupported option: " \o option.v)]
    ELSE update_settings(c,
            PyDict(DictMerge(common_settings(c),
                             DictAt(option_registry(c), StrUpper(option.v)))),
            kwargs)

\* _set_config(option, **kwargs)
set_config(c, settings, option, kwargs) ==
    IF option.t # "str"
    THEN [settings |-> settings,
          exc |-> Raise("AttributeError", "'" \o option.t
                            \o "' object has no attribute 'upper'")]
    ELSE IF ~DictHas(option_registry(c), StrUpper(option.v))
    THEN [settings |-> settings,
          exc |-> CarisBatchError("Unsupported option: " \o option.v)]
    ELSE update_settings(c,
            PyDict(DictMerge(common_settings(c),
                             DictAt(option_registry(c), StrUpper(option.v)))),
            kwargs)

\* a normalisation that strips one leading underscore and no more
normalize_key_strip_one(key) ==
    LET k == StrReplace(key, "-", "_")
    IN IF k # "" /\ Head(k) = "_" THEN Tail(k) ELSE k

\* the key normalisation of config
normalize_key(key) == StrLstrip(StrReplace(key, "-", "_"), "_")

RECURSIVE normalize_kwargs(_)
\* {key.replace('-', '_').lstrip('_'): value for key, value in kwargs.items()}
normalize_kwargs(kwargs) ==
    IF kwargs = <<>> THEN <<>>
    ELSE LET init == normalize_kwargs(SubSeq(kwargs, 1, Len(kwargs) - 1))
             last_item == kwargs[Len(kwargs)]
         IN DictSet(init, normalize_key(last_item.k), last_item.v)

\* `self._option_key in kwargs`
has_option_key(c, kwargs) ==
    option_key(c).t = "str" /\ DictHas(kwargs, option_key(c).v)

\* config without the reset on a changed discriminator value
config_no_reset(c, settings0, raw_kwargs) ==
    LET kwargs == normalize_kwargs(raw_kwargs)
        settings1 == IF settings0.t = "NoneType" THEN PyDict(<<>>) ELSE settings0
    IN IF ~Truthy(settings1)
       THEN set_config(c, settings1,
                       IF has_option_key(c, kwargs)
                       THEN DictAt(kwargs, option_key(c).v)
                       ELSE PyStr(command(c)),
                       kwargs)
       ELSE update_settings(c, settings1, kwargs)

\* config that rebuilds the mapping on every call that carries the discriminator
config_always_rebuild(c, settings0, raw_kwargs) ==
    LET kwargs == normalize_kwargs(raw_kwargs)
        settings1 == IF settings0.t = "NoneType" THEN PyDict(<<>>) ELSE settings0
        settings2 == IF has_option_key(c, kwargs) THEN PyNone ELSE settings1
    IN IF ~Truthy(settings2)
       THEN set_config(c, settings2,
                       IF has_option_key(c, kwargs)
                       THEN DictAt(kwargs, option_key(c).v)
                       ELSE PyStr(command(c)),
                       kwargs)
       ELSE update_settings(c, settings2, kwargs)

\* config that, on a changed discriminator value, builds the new variant's mapping
\* on top of the mapping it holds instead of replacing it
config_merge_on_switch(c, settings0, raw_kwargs) ==
    LET kwargs == normalize_kwargs(raw_kwargs)
        settings1 == IF settings0.t = "NoneType" THEN PyDict(<<>>) ELSE settings0
        switch == /\ has_option_key(c, kwargs)
                  /\ ~PyEq(DictGet(settings1.v, option_key(c).v, PyNone),
                           DictAt(kwargs, option_key(c).v))
        built == set_config(c, settings1,
                            IF has_option_key(c, kwargs)
                            THEN DictAt(kwargs, option_key(c).v)
                            ELSE PyStr(command(c)),
                            kwargs)
    IN IF switch \/ ~Truthy(settings1)
       THEN (IF built.exc = NoExc
             THEN [settings |-> PyDict(DictMerge(settings1.v, built.settings.v)),
                   exc |-> NoExc]
             ELSE built)
       ELSE update_settings(c, settings1, kwargs)

\* config(**kwargs)
config(c, settings0, raw_kwargs) ==
    LET kwargs == normalize_kwargs(raw_kwargs)
        settings1 == IF settings0.t = "NoneType" THEN PyDict(<<>>) ELSE settings0
        settings2 ==
            IF /\ has_option_key(c, kwargs)
               /\ ~PyEq(DictGet(settings1.v, option_key(c).v, PyNone),
                        DictAt(kwargs, option_key(c).v))
            THEN PyNone ELSE settings1
    IN IF ~Truthy(settings2)
       THEN set_config(c, settings2,
                       IF has_option_key(c, kwargs)
                       THEN DictAt(kwargs, option_key(c).v)
                       ELSE PyStr(command(c)),
                       kwargs)
       ELSE update_settings(c, settings2, kwargs)

(***************************************************************************)
(* Object identity: which dict object self.settings refers to.  The        *)
(* class-level mappings are objects of their own; a dict display creates a *)
(* new object, and an item assignment writes the object it is made on.     *)
(***************************************************************************)
\* no object (self.settings is None)
NoId == "none"

\* the identities of the dicts that instances create
InstanceDicts == {"d1", "d2", "d3"}

\* the identity of a class's _common_settings
CommonId(c) == "common:" \o c

\* a dict display evaluates to a new object: one no live reference holds
new_dict(live) == CHOOSE d \in InstanceDicts : d \notin live

\* a merge made in place on the class-level mapping:
\* self._common_settings.update(defaults) bound to self.settings
merged_dict_in_place(c, live) == CommonId(c)

\* the object `{**self._common_settings, **settings_class.default_settings}`
merged_dict(c, live) == new_dict(live)

\* the object self.settings refers to when config(**kwargs) ends; id0 is the one
\* it referred to before, live the objects other references hold
config_object(c, id0, settings0, raw_kwargs, live) ==
    LET kwargs == normalize_kwargs(raw_kwargs)
        id1 == IF settings0.t = "NoneType" THEN new_dict(live) ELSE id0
        settings1 == IF settings0.t = "NoneType" THEN PyDict(<<>>) ELSE settings0
        switch == /\ has_option_key(c, kwargs)
                  /\ ~PyEq(DictGet(settings1.v, option_key(c).v, PyNone),
                           DictAt(kwargs, option_key(c).v))
        id2 == IF switch THEN NoId ELSE id1
        option == IF has_option_key(c, kwargs) THEN DictAt(kwargs, option_key(c).v)
                  ELSE PyStr(command(c))
    IN IF (switch \/ ~Truthy(settings1))
          /\ option.t = "str" /\ DictHas(option_registry(c), StrUpper(option.v))
       THEN merged_dict(c, live \cup {id2})
       ELSE id2

(***************************************************************************)
(* Argument formatting: _utils and CarisBatchCommand._ArgsProcessing.      *)
(***************************************************************************)
\* _utils.ensure_iterable: a str or a non-iterable becomes a one-element list;
\* the result read as the values its iteration yields (a dict yields its keys)
ensure_iterable(items) ==
    CASE items.t \in {"list", "tuple", "generator"} -> items.v
      [] items.t = "dict" -> [i \in 1..Len(items.v) |-> PyStr(items.v[i].k)]
      [] OTHER -> <<items>>

\* a value once a handler has iterated it: a generator has nothing left to yield
iterated(value) == IF value.t = "generator" THEN PyGen(<<>>) ELSE value

\* the property _repeatable_args
repeatable_args ==
    {"area_features", "attribute", "blocking_feature", "channel", "compare",
     "component_attribute", "compute_band", "contour_features", "coordinate_format",
     "contributor_attribute", "data", "deep_attributes", "filter_acquisition",
     "filter_post_processing", "grazing_angle_table", "import_type", "include",
     "include_3D_symbol", "include_attribute", "include_band", "include_flag",
     "input_band", "level", "level_file", "matrix", "minimum_distance", "overwrite",
     "override_classification_mapping", "range", "range_table",
     "reference_area_features", "reference_features", "reject_quality", "reject_type",
     "sbet_files", "sbet_rms_files", "shoal_attributes", "smooth_sensor", "status",
     "surface_name", "svp", "template", "template_name"}

\* f'--{key.replace("_","-")}'
flag(key) == "--" \o StrReplace(key, "_", "-")

\* f'"{value}"'
quoted(s) == "\"" \o s \o "\""

\* _ArgsProcessing.iterables
iterables(key, values) ==
    <<flag(key)>> \o [i \in 1..Len(values.v) |-> quoted(PyToStr(values.v[i]))]

\* _ArgsProcessing.common_types
common_types(key, value) == <<flag(key) \o " " \o quoted(PyToStr(value))>>

\* _ArgsProcessing.booleans: [flag if value else None]; get_cmd dispatches truthy
\* values only, so the None element is never produced
booleans(key, value) == IF value.v THEN <<flag(key)>> ELSE <<"None">>

\* repeatables_args that writes the flag once, ahead of all the values
repeatables_args_single_flag(key, values) ==
    LET vs == ensure_iterable(values)
    IN <<flag(key)>> \o [i \in 1..Len(vs) |-> quoted(PyToStr(vs[i]))]

\* _ArgsProcessing.repeatables_args
repeatables_args(key, values) ==
    LET vs == ensure_iterable(values)
    IN [i \in 1..Len(vs) |-> flag(key) \o " " \o quoted(PyToStr(vs[i]))]

\* the types _initialize_dispatcher registers besides 'Repeatable'
dispatcher_types == {"bool", "list", "tuple", "generator", "int", "str", "float"}

\* a dispatch that formats a value of an unregistered type as a string
dispatch_any_type(key, value) ==
    IF key \in repeatable_args
    THEN [args |-> repeatables_args(key, value), exc |-> NoExc]
    ELSE [args |-> CASE value.t = "bool" -> booleans(key, value)
                     [] value.t \in {"list", "tuple", "generator"} -> iterables(key, value)
                     [] OTHER -> common_types(key, value),
          exc |-> NoExc]

\* Dispatcher.dispatch as get_cmd uses it for one truthy setting
dispatch(key, value) ==
    IF key \in repeatable_args
    THEN [args |-> repeatables_args(key, value), exc |-> NoExc]
    ELSE IF value.t \notin dispatcher_types
    THEN [args |-> <<>>,
          exc |-> Raise("ValueError", "No handler registered for command: <class '"
                                      \o value.t \o "'>")]
    ELSE [args |-> CASE value.t = "bool" -> booleans(key, value)
                     [] value.t \in {"list", "tuple", "generator"} -> iterables(key, value)
                     [] OTHER -> common_types(key, value),
          exc |-> NoExc]

RECURSIVE settings_args(_)
\* the loop of get_cmd over self.settings.items(): the arguments it collects, the
\* exception that ends it, and the items as the loop leaves them (every value a
\* handler was given has been iterated)
settings_args(items) ==
    IF items = <<>> THEN [args |-> <<>>, exc |-> NoExc, items |-> <<>>]
    ELSE IF ~Truthy(items[1].v)
    THEN LET rest == settings_args(Tail(items))
         IN [rest EXCEPT !.items = <<items[1]>> \o rest.items]
    ELSE LET first == dispatch(items[1].k, items[1].v)
             rest == settings_args(Tail(items))
         IN IF first.exc # NoExc
            THEN [args |-> <<>>, exc |-> first.exc, items |-> items]
            ELSE [args |-> IF rest.exc = NoExc THEN first.args \o rest.args ELSE <<>>,
                  exc |-> rest.exc,
                  items |-> <<Item(items[1].k, iterated(items[1].v))>> \o rest.items]

RECURSIVE files_to_load_args(_)
\* _ArgsProcessing.files_to_load
files_to_load_args(files) ==
    IF files = <<>> THEN <<>>
    ELSE (IF Truthy(files[1]) THEN <<quoted(PyToStr(files[1]))>> ELSE <<>>)
         \o files_to_load_args(Tail(files))

RECURSIVE PathStr(_)
\* str(Path(path)) for a POSIX path: repeated and trailing slashes are dropped
PathStr(p) ==
    IF Len(p) <= 1 THEN p
    ELSE IF Head(p) = "/" /\ Head(Tail(p)) = "/" THEN PathStr(Tail(p))
    ELSE IF Tail(p) = "/" THEN Head(p)
    ELSE Head(p) \o PathStr(Tail(p))

RECURSIVE query_terms(_)
\* the generator of proc_path: one 'Param=value' per truthy value, in order
query_terms(selectors) ==
    IF selectors = <<>> THEN <<>>
    ELSE LET vs == ensure_iterable(selectors[1].v)
             truthy == SelectSeq(vs, Truthy)
         IN [i \in 1..Len(truthy) |-> selectors[1].k \o "=" \o PyToStr(truthy[i])]
            \o query_terms(Tail(selectors))

\* proc_path whose query lists the days ahead of the vessels
proc_path_day_first(path, as_uri, vessels_, days_, lines_) ==
    IF ~Truthy(path) THEN [args |-> <<>>, exc |-> NoExc]
    ELSE IF as_uri /\ Head(PathStr(path.v)) # "/"
    THEN [args |-> <<>>,
          exc |-> Raise("ValueError", "relative path can't be expressed as a file URI")]
    ELSE LET uri == IF as_uri THEN "file://" \o PathStr(path.v) ELSE PathStr(path.v)
             query_params == StrJoin(";", query_terms(<<Item("Day", days_),
                                                        Item("Vessel", vessels_),
                                                        Item("Line", lines_)>>))
         IN [args |-> IF as_uri /\ StrEndswith(uri, ".hips") /\ query_params # ""
                      THEN <<quoted(uri \o "?" \o query_params)>>
                      ELSE <<quoted(uri)>>,
             exc |-> NoExc]

\* _ArgsProcessing.proc_path
proc_path(path, as_uri, vessels_, days_, lines_) ==
    IF ~Truthy(path) THEN [args |-> <<>>, exc |-> NoExc]
    ELSE IF as_uri /\ Head(PathStr(path.v)) # "/"
    THEN [args |-> <<>>,
          exc |-> Raise("ValueError", "relative path can't be expressed as a file URI")]
    ELSE LET uri == IF as_uri THEN "file://" \o PathStr(path.v) ELSE PathStr(path.v)
             query_params == StrJoin(";", query_terms(<<Item("Vessel", vessels_),
                                                        Item("Day", days_),
                                                        Item("Line", lines_)>>))
         IN [args |-> IF as_uri /\ StrEndswith(uri, ".hips") /\ query_params # ""
                      THEN <<quoted(uri \o "?" \o query_params)>>
                      ELSE <<quoted(uri)>>,
             exc |-> NoExc]

(***************************************************************************)
(* State: one operation instance, the call in progress and the outcome of  *)
(* the last finished call.                                                 *)
(***************************************************************************)
VARIABLES
    cls,             \* the operation class of the instance
    input,           \* self.input
    input_as_uri,    \* self.input_as_uri
    vessels,         \* self.vessels
    days,            \* self.days
    lines,           \* self.lines
    files_to_load,   \* self.files_to_load
    output,          \* self.output
    output_as_uri,   \* self.output_as_uri
    settings,        \* self.settings: None or a dict
    pc,              \* where the caller stands: "idle" between calls, a step of
                     \* run() while it is in progress, "done" when a call has ended
    process,         \* the local `process` of run(): None or the Popen object
    command_line,    \* the local `command` of run()
    pending,         \* what run() is about to return or raise once `finally` is done
    child,           \* the shell started by Popen: "none", "running", "exited", "killed"
    tool,            \* TRUE while a descendant of the shell holds the output pipes
    last,            \* the call that has just ended: its arguments (for config, also
                     \* as the normalised dict the call builds from them), the
                     \* settings before it, and what it returned or raised
    established,     \* TRUE once a config call has returned without raising
    pair             \* where two instances are followed: the second instance, the
                     \* identities of the two settings objects, the class-level
                     \* mappings as they stand, and the config call that has just
                     \* ended; NoPair where one instance is followed

vars == <<cls, input, input_as_uri, vessels, days, lines, files_to_load, output,
          output_as_uri, settings, pc, process, command_line, pending, child, tool,
          last, established, pair>>

\* what the calls on the one instance leave as __init__ set it
self_vars == <<cls, input, input_as_uri, vessels, days, lines, files_to_load, output,
               output_as_uri, pair>>

\* the instance as get_cmd reads it
Self ==
    [cls |-> cls, input |-> input, input_as_uri |-> input_as_uri, vessels |-> vessels,
     days |-> days, lines |-> lines, files_to_load |-> files_to_load,
     output |-> output, output_as_uri |-> output_as_uri, settings |-> settings]

\* get_cmd with its two checks in the other order
get_cmd_settings_first(self) ==
    IF ~Truthy(self.settings) /\ option_key(self.cls) # PyNone
    THEN [ret |-> PyNone, settings |-> self.settings,
          exc |-> CarisBatchError("Settings are not configured")]
    ELSE IF self.input = PyNone /\ self.output = PyNone
    THEN [ret |-> PyNone, settings |-> self.settings,
          exc |-> CarisBatchError("Input and/or output are not configured")]
    ELSE [ret |-> PyStr("carisbatch --run " \o command(self.cls)),
          settings |-> self.settings, exc |-> NoExc]

\* get_cmd that joins the output path ahead of the input path
get_cmd_output_first(self) ==
    IF self.input = PyNone /\ self.output = PyNone
    THEN [ret |-> PyNone, settings |-> self.settings,
          exc |-> CarisBatchError("Input and/or output are not configured")]
    ELSE IF ~Truthy(self.settings) /\ option_key(self.cls) # PyNone
    THEN [ret |-> PyNone, settings |-> self.settings,
          exc |-> CarisBatchError("Settings are not configured")]
    ELSE IF self.settings.t = "NoneType"
    THEN [ret |-> PyNone, settings |-> self.settings,
          exc |-> Raise("AttributeError", "'NoneType' object has no attribute 'items'")]
    ELSE LET opts == settings_args(self.settings.v)
             inp == proc_path(self.input, self.input_as_uri, self.vessels, self.days,
                              self.lines)
             out == proc_path(self.output, self.output_as_uri, PyNone, PyNone, PyNone)
             files == files_to_load_args(self.files_to_load)
             after == PyDict(opts.items)
         IN IF opts.exc # NoExc
            THEN [ret |-> PyNone, settings |-> after, exc |-> opts.exc]
            ELSE IF inp.exc # NoExc
            THEN [ret |-> PyNone, settings |-> after, exc |-> inp.exc]
            ELSE IF out.exc # NoExc
            THEN [ret |-> PyNone, settings |-> after, exc |-> out.exc]
            ELSE [ret |-> PyStr(StrJoin(" ", <<"carisbatch", "--run", command(self.cls)>>
                                              \o opts.args \o files \o out.args
                                              \o inp.args)),
                  settings |-> after, exc |-> NoExc]

\* get_cmd(): what it returns or raises, and self.settings as it leaves it
get_cmd(self) ==
    IF self.input = PyNone /\ self.output = PyNone
    THEN [ret |-> PyNone, settings |-> self.settings,
          exc |-> CarisBatchError("Input and/or output are not configured")]
    ELSE IF ~Truthy(self.settings) /\ option_key(self.cls) # PyNone
    THEN [ret |-> PyNone, settings |-> self.settings,
          exc |-> CarisBatchError("Settings are not configured")]
    ELSE IF self.settings.t = "NoneType"
    THEN [ret |-> PyNone, settings |-> self.settings,
          exc |-> Raise("AttributeError", "'NoneType' object has no attribute 'items'")]
    ELSE LET opts == settings_args(self.settings.v)
             inp == proc_path(self.input, self.input_as_uri, self.vessels, self.days,
                              self.lines)
             out == proc_path(self.output, self.output_as_uri, PyNone, PyNone, PyNone)
             files == files_to_load_args(self.files_to_load)
             after == PyDict(opts.items)
         IN IF opts.exc # NoExc
            THEN [ret |-> PyNone, settings |-> after, exc |-> opts.exc]
            ELSE IF inp.exc # NoExc
            THEN [ret |-> PyNone, settings |-> after, exc |-> inp.exc]
            ELSE IF out.exc # NoExc
            THEN [ret |-> PyNone, settings |-> after, exc |-> out.exc]
            ELSE [ret |-> PyStr(StrJoin(" ", <<"carisbatch", "--run", command(self.cls)>>
                                              \o opts.args \o files \o inp.args
                                              \o out.args)),
                  settings |-> after, exc |-> NoExc]

(***************************************************************************)
(* Inputs: the constructor calls and the keyword arguments the caller      *)
(* makes.                                                                  *)
(***************************************************************************)
NoPaths ==
    [input |-> PyNone, input_as_uri |-> FALSE, vessel |-> PyNone, day |-> PyNone,
     line |-> PyNone, files_to_load |-> <<>>, output |-> PyNone, output_as_uri |-> FALSE]

BothPaths ==
    [input |-> PyStr("/data/p.hips"), input_as_uri |-> TRUE,
     vessel |-> PyList(<<PyStr("A"), PyStr("B")>>), day |-> PyStr("2024-01-01"),
     line |-> PyNone, files_to_load |-> <<PyStr("/data/aux.csar")>>,
     output |-> PyStr("/data/out.csar"), output_as_uri |-> FALSE]

OutputOnly ==
    [input |-> PyNone, input_as_uri |-> FALSE, vessel |-> PyStr("A"), day |-> PyNone,
     line |-> PyNone, files_to_load |-> <<>>, output |-> PyStr("/data/q.hips"),
     output_as_uri |-> TRUE]

Constructions == {NoPaths, BothPaths, OutputOnly}

\* the keyword arguments a config call draws from, per operation class
KwargItems(c) ==
    CASE c = "ThinPoints" ->
            { Item("method", PyStr("RANDOM")), Item("method", PyStr("random")),
              Item("method", PyStr("MINIMUM_DISTANCE")), Item("method", PyStr("FOO")),
              Item("method", PyStr("apply_bias")),
              Item("method", PyNone), Item("percentage", PyInt(10)),
              Item("minimum_distance", PyInt(5)), Item("include-band", PyStr("Depth")),
              Item("bogus", PyInt(1)) }
      [] c = "AssignSoundingSCAMINValues" ->
            { Item("map_scale", PyInt(50000)), Item("feature-catalogue", PyStr("S-57")),
              Item("map_scale", PyNone), Item("bogus", PyInt(1)),
              Item("map_scale", PyDict(<<Item("k", PyInt(1))>>)),
              Item("scaling_parameters_file", PyPath("/data/s.xml")) }
      [] c = "UpdateBandValues" ->
            { Item("band-type", PyStr("NUMERIC")), Item("band_type", PyStr("STATUS")),
              Item("band_type", PyStr("FOO")), Item("expression", PyStr("x")) }
      [] c = "ValidateCoverage" -> { Item("bogus", PyInt(1)) }
      [] c = "GridPointsUsingCUBE" ->
            { Item("resolution", PyStr("1m")), Item("comments", PyStr("c")) }
      [] c = "AddFeatures" ->
            { Item("overwrite", PyBool(TRUE)), Item("keep-foid", PyBool(TRUE)),
              Item("bogus", PyInt(1)) }
      [] c = "ImportCZMILToSurvey" ->
            { Item("sbet_files", PyList(<<PyStr("a.sbet"), PyStr("b.sbet")>>)),
              Item("survey_name", PyStr("s")), Item("bogus", PyInt(1)) }

\* keyword arguments are distinct names, in the order the caller wrote them
KwargSeqs(c) ==
    UNION { { kw \in [1..n -> KwargItems(c)] :
                \A i, j \in 1..n : i # j => kw[i].k # kw[j].k } : n \in 0..MaxKwargs }

\* the exit codes and outputs the external tool can end with
ExitCodes == {0, 1}

(***************************************************************************)
(* Initial state: the instance right after __init__.                       *)
(***************************************************************************)
NoPair == [peer_cls |-> "none"]

NoCall == [call |-> "none", kwargs |-> <<>>, before |-> PyNone, ret |-> PyNone,
           exc |-> NoExc, timed_out |-> FALSE, process |-> PyNone, update |-> <<>>]

Init ==
    /\ cls \in Classes
    /\ \E k \in Constructions :
          /\ input = k.input
          /\ input_as_uri = k.input_as_uri
          /\ vessels = k.vessel
          /\ days = k.day
          /\ lines = k.line
          /\ files_to_load = k.files_to_load
          /\ output = k.output
          /\ output_as_uri = k.output_as_uri
    /\ settings = PyNone
    /\ pc = "idle"
    /\ process = PyNone
    /\ command_line = PyNone
    /\ pending = NoCall
    /\ child = "none"
    /\ tool = FALSE
    /\ last = NoCall
    /\ established = FALSE
    /\ pair = NoPair

(***************************************************************************)
(* The caller's operations.                                                *)
(***************************************************************************)
\* instance.config(**kwargs)
Config(kwargs) ==
    /\ pc = "idle"
    /\ LET r == config(cls, settings, kwargs)
       IN /\ settings' = r.settings
          /\ last' = [call |-> "config", kwargs |-> kwargs, before |-> settings,
                      ret |-> PyNone, exc |-> r.exc, timed_out |-> FALSE,
                      process |-> PyNone, update |-> normalize_kwargs(kwargs)]
          /\ established' = (established \/ r.exc = NoExc)
    /\ pc' = "done"
    /\ UNCHANGED <<self_vars, process, command_line, pending, child, tool>>

\* instance.get_cmd()
GetCmd ==
    /\ pc = "idle"
    /\ last' = [call |-> "get_cmd", kwargs |-> <<>>, before |-> settings,
                ret |-> get_cmd(Self).ret, exc |-> get_cmd(Self).exc, timed_out |-> FALSE,
                process |-> PyNone, update |-> <<>>]
    /\ settings' = get_cmd(Self).settings
    /\ pc' = "done"
    /\ UNCHANGED <<self_vars, established, process, command_line, pending, child, tool>>

(***************************************************************************)
(* run(timeout), step by step: the call blocks in communicate() while the  *)
(* shell and the external tool run.                                        *)
(***************************************************************************)
\* an outcome of run(): a returned tuple or a raised exception
RunOutcome(ret, exc, timed_out) ==
    [call |-> "run", kwargs |-> <<>>, before |-> settings, ret |-> ret, exc |-> exc,
     timed_out |-> timed_out, process |-> PyNone, update |-> <<>>]

\* the Popen object: its returncode and whether its two pipes are closed
Popen(returncode, closed) ==
    [returncode |-> returncode, stdout_closed |-> closed, stderr_closed |-> closed]

\* a `finally` block that closes stdout only
close_streams_stdout_only(p) ==
    IF p = PyNone THEN p ELSE [p EXCEPT !.stdout_closed = TRUE]

\* the `finally` block: `if process: process.stdout.close(); process.stderr.close()`
close_streams(p) ==
    IF p = PyNone THEN p ELSE [p EXCEPT !.stdout_closed = TRUE, !.stderr_closed = TRUE]

\* a timeout handler that does not kill the child
kill_nothing(state) == state

\* the `except TimeoutExpired` block up to the kill: `if process: process.kill()`
kill(state) == IF state = "running" THEN "killed" ELSE state

\* the tuple the `except TimeoutExpired` block returns
timeout_result(cmd) ==
    PyTuple(<<PyInt(1), PyStr(""), PyStr("Command Timed out"), cmd>>)

\* run(): `command = self.get_cmd()` and `process = None`, ahead of the try block
RunCall ==
    /\ pc = "idle"
    /\ IF get_cmd(Self).exc # NoExc
       THEN /\ last' = RunOutcome(PyNone, get_cmd(Self).exc, FALSE)
            /\ pc' = "done"
            /\ UNCHANGED <<process, command_line, pending, child, tool>>
       ELSE /\ command_line' = get_cmd(Self).ret
            /\ process' = PyNone
            /\ pc' = "popen"
            /\ UNCHANGED <<pending, child, tool, last>>
    /\ settings' = get_cmd(Self).settings
    /\ UNCHANGED <<self_vars, established>>

\* subprocess.Popen(command, shell=True, stdout=PIPE, stderr=PIPE, text=True):
\* the shell starts; it either becomes the tool or starts it as its own child
PopenStarts ==
    /\ pc = "popen"
    /\ process' = Popen(PyNone, FALSE)
    /\ child' = "running"
    /\ tool' \in BOOLEAN
    /\ pc' = "communicate"
    /\ UNCHANGED <<self_vars, established, settings, command_line, pending, last>>

\* Popen raises (the shell cannot be started): `process` stays None
PopenFails ==
    /\ pc = "popen"
    /\ pending' = RunOutcome(PyNone, Raise("OSError", "cannot start the shell"), FALSE)
    /\ pc' = "finally"
    /\ UNCHANGED <<self_vars, established, settings, process, command_line, child,
                   tool, last>>

\* the external tool ends and lets go of the pipes
ToolExits ==
    /\ pc \in {"communicate", "kill", "drain"}
    /\ tool
    /\ tool' = FALSE
    /\ UNCHANGED <<self_vars, established, settings, pc, process, command_line,
                   pending, child, last>>

\* the shell ends once the tool it waits for has ended
ChildExits ==
    /\ pc \in {"communicate", "kill"}
    /\ child = "running"
    /\ ~tool
    /\ child' = "exited"
    /\ UNCHANGED <<self_vars, established, settings, pc, process, command_line,
                   pending, tool, last>>

\* process.communicate(timeout=timeout) returns: both pipes are at end of file
CommunicateReturns ==
    /\ pc = "communicate"
    /\ child = "exited"
    /\ ~tool
    /\ \E rc \in ExitCodes :
          /\ process' = Popen(PyInt(rc), TRUE)
          /\ pending' = RunOutcome(PyTuple(<<PyInt(rc), PyStr("<stdout>"),
                                             PyStr("<stderr>"), command_line>>),
                                   NoExc, FALSE)
    /\ pc' = "finally"
    /\ UNCHANGED <<self_vars, established, settings, command_line, child, tool, last>>

\* process.communicate(timeout=timeout) raises TimeoutExpired
CommunicateTimeout ==
    /\ pc = "communicate"
    /\ child = "running"
    /\ pc' = "kill"
    /\ UNCHANGED <<self_vars, established, settings, process, command_line, pending,
                   child, tool, last>>

\* communicate raises something else (undecodable output, an interrupt)
CommunicateRaises ==
    /\ pc \in {"communicate", "drain"}
    /\ pending' = RunOutcome(PyNone, Raise("UnicodeDecodeError", "invalid start byte"),
                             pc = "drain")
    /\ pc' = "finally"
    /\ UNCHANGED <<self_vars, established, settings, process, command_line, child,
                   tool, last>>

\* except TimeoutExpired: process.kill()
Kill ==
    /\ pc = "kill"
    /\ child' = kill(child)
    /\ pc' = "drain"
    /\ UNCHANGED <<self_vars, established, settings, process, command_line, pending,
                   tool, last>>

\* except TimeoutExpired: process.communicate() returns at end of file of both
\* pipes, and the block returns its tuple
Drain ==
    /\ pc = "drain"
    /\ child # "running"
    /\ ~tool
    /\ process' = Popen(PyInt(IF child = "killed" THEN -9 ELSE 0), TRUE)
    /\ pending' = RunOutcome(timeout_result(command_line), NoExc, TRUE)
    /\ pc' = "finally"
    /\ UNCHANGED <<self_vars, established, settings, command_line, child, tool, last>>

\* the `finally` block, after which run() returns or raises what is pending
\* and its locals are gone
Finally ==
    /\ pc = "finally"
    /\ last' = [pending EXCEPT !.process = close_streams(process)]
    /\ pc' = "done"
    /\ process' = PyNone
    /\ command_line' = PyNone
    /\ pending' = NoCall
    /\ child' = "none"
    /\ tool' = FALSE
    /\ UNCHANGED <<self_vars, established, settings>>

\* the caller has seen the outcome of the call and goes on
Return ==
    /\ pc = "done"
    /\ pc' = "idle"
    /\ last' = NoCall
    /\ UNCHANGED <<self_vars, established, settings, process, command_line, pending,
                   child, tool>>

\* a config call with any of the keyword arguments the caller draws from
Configure ==
    /\ pc = "idle"
    /\ \E kwargs \in KwargSeqs(cls) : Config(kwargs)

Next ==
    \/ Configure
    \/ GetCmd
    \/ RunCall
    \/ PopenStarts
    \/ PopenFails
    \/ ToolExits
    \/ ChildExits
    \/ CommunicateReturns
    \/ CommunicateTimeout
    \/ CommunicateRaises
    \/ Kill
    \/ Drain
    \/ Finally
    \/ Return

Spec == Init /\ [][Next]_vars

(***************************************************************************)
(* The command line: get_cmd is a function of the instance, applied here   *)
(* to a wider range of constructor arguments and setting values, set one   *)
(* key at a time by config.                                                *)
(***************************************************************************)
\* largest number of keyword arguments of one config call under CmdSpec
MaxCmdKwargs == 1

NoSelectors ==
    [input |-> PyStr("/data/p.hips"), input_as_uri |-> TRUE, vessel |-> PyNone,
     day |-> PyStr(""), line |-> PyNone, files_to_load |-> <<>>, output |-> PyNone,
     output_as_uri |-> FALSE]

PlainInput ==
    [input |-> PyStr("/data/p.hips"), input_as_uri |-> FALSE, vessel |-> PyStr("A"),
     day |-> PyNone, line |-> PyStr("L1"), files_to_load |-> <<>>,
     output |-> PyStr("/data/q.hips"), output_as_uri |-> TRUE]

OtherExtension ==
    [input |-> PyStr("/data/s.csar"), input_as_uri |-> TRUE, vessel |-> PyNone,
     day |-> PyStr("2024-01-01"), line |-> PyNone,
     files_to_load |-> <<PyStr("/data/a.csar"), PyStr("/data/b.csar")>>,
     output |-> PyNone, output_as_uri |-> FALSE]

AllSelectors ==
    [input |-> PyStr("/data/p.hips"), input_as_uri |-> TRUE, vessel |-> PyStr("A"),
     day |-> PyList(<<PyStr("2024-01-01"), PyStr("2024-01-02")>>),
     line |-> PyList(<<PyStr("L1"), PyStr("L2")>>), files_to_load |-> <<>>,
     output |-> PyStr("/data/q.hips"), output_as_uri |-> TRUE]

LineOnly ==
    [input |-> PyStr("/data/p.hips"), input_as_uri |-> TRUE, vessel |-> PyNone,
     day |-> PyNone, line |-> PyStr("L1"), files_to_load |-> <<PyStr("/data/a.csar")>>,
     output |-> PyStr("/data/out.csar"), output_as_uri |-> FALSE]

RelativeInput ==
    [input |-> PyStr("p.hips"), input_as_uri |-> TRUE, vessel |-> PyStr("A"),
     day |-> PyNone, line |-> PyNone, files_to_load |-> <<>>, output |-> PyNone,
     output_as_uri |-> FALSE]

CmdConstructions ==
    {NoPaths, BothPaths, OutputOnly, NoSelectors, PlainInput, OtherExtension,
     AllSelectors, LineOnly, RelativeInput}

\* the constructor calls made per operation class: the two classes whose settings
\* take the widest range of values are built with three of them
CmdConstructionsOf(c) ==
    IF c \in {"ThinPoints", "AddFeatures"} THEN {NoPaths, BothPaths, OutputOnly}
    ELSE CmdConstructions

\* the keyword arguments a config call draws from under CmdSpec
CmdKwargItems(c) ==
    CASE c = "ThinPoints" ->
            { Item("method", PyStr("RANDOM")), Item("method", PyStr("MINIMUM_DISTANCE")),
              Item("include-band", PyStr("Depth")),
              Item("include_band", PyList(<<PyStr("Depth"), PyStr("Density")>>)),
              Item("comments", PyStr("c")), Item("comments", PyBool(TRUE)),
              Item("comments", PyList(<<PyStr("a"), PyStr("b")>>)),
              Item("comments", PyDict(<<Item("k", PyInt(1))>>)),
              Item("comments", PyTuple(<<PyStr("a"), PyStr("b")>>)),
              Item("comments", PyGen(<<PyStr("a"), PyStr("b")>>)),
              Item("percentage", PyInt(10)), Item("percentage", PyFloat("12.5")),
              Item("minimum_distance", PyInt(5)) }
      [] c = "AddFeatures" ->
            { Item("overwrite", PyBool(TRUE)), Item("overwrite", PyBool(FALSE)),
              Item("overwrite", PyStr("yes")),
              Item("keep_foid", PyBool(TRUE)), Item("keep_foid", PyBool(FALSE)),
              Item("keep-foid", PyBool(FALSE)), Item("_keep_foid", PyBool(TRUE)),
              Item("--keep-foid", PyBool(TRUE)), Item("-bogus", PyInt(1)),
              Item("feature_catalogue", PyStr("S-57")),
              Item("feature_catalogue", PyStr("")),
              Item("feature_catalogue", PyList(<<>>)), Item("input_crs", PyInt(0)) }
      [] OTHER -> KwargItems(c)

CmdKwargSeqs(c) ==
    UNION { { kw \in [1..n -> CmdKwargItems(c)] :
                \A i, j \in 1..n : i # j => kw[i].k # kw[j].k } : n \in 0..MaxCmdKwargs }

\* the instance right after __init__, for the wider range of constructor arguments
CmdInit ==
    /\ cls \in Classes
    /\ \E k \in CmdConstructionsOf(cls) :
          /\ input = k.input
          /\ input_as_uri = k.input_as_uri
          /\ vessels = k.vessel
          /\ days = k.day
          /\ lines = k.line
          /\ files_to_load = k.files_to_load
          /\ output = k.output
          /\ output_as_uri = k.output_as_uri
    /\ settings = PyNone
    /\ pc = "idle"
    /\ process = PyNone
    /\ command_line = PyNone
    /\ pending = NoCall
    /\ child = "none"
    /\ tool = FALSE
    /\ last = NoCall
    /\ established = FALSE
    /\ pair = NoPair

\* a config call with any of the keyword arguments drawn under CmdSpec
CmdConfigure ==
    /\ pc = "idle"
    /\ \E kwargs \in CmdKwargSeqs(cls) : Config(kwargs)

CmdNext ==
    \/ CmdConfigure
    \/ GetCmd
    \/ Return

CmdSpec == CmdInit /\ [][CmdNext]_vars

(***************************************************************************)
(* Two instances: config calls on either of two instances, of the same or  *)
(* of different operation classes, with the class-level mappings followed  *)
(* as the objects they are.                                                *)
(***************************************************************************)
\* largest number of keyword arguments of one config call under PairSpec
MaxPairKwargs == 1

\* the operation classes of the two instances
PairClasses == {"ThinPoints", "ImportCZMILToSurvey"}

\* the keyword arguments a config call draws from under PairSpec
PairKwargItems(c) ==
    CASE c = "ThinPoints" ->
            { Item("method", PyStr("RANDOM")), Item("method", PyStr("MINIMUM_DISTANCE")),
              Item("method", PyStr("FOO")), Item("percentage", PyInt(10)),
              Item("bogus", PyInt(1)) }
      [] OTHER -> KwargItems(c)

PairKwargSeqs(c) ==
    UNION { { kw \in [1..n -> PairKwargItems(c)] :
                \A i, j \in 1..n : i # j => kw[i].k # kw[j].k } : n \in 0..MaxPairKwargs }

\* two instances right after __init__, and the class attributes as declared
PairInit ==
    /\ cls \in PairClasses
    /\ input = NoPaths.input
    /\ input_as_uri = NoPaths.input_as_uri
    /\ vessels = NoPaths.vessel
    /\ days = NoPaths.day
    /\ lines = NoPaths.line
    /\ files_to_load = NoPaths.files_to_load
    /\ output = NoPaths.output
    /\ output_as_uri = NoPaths.output_as_uri
    /\ settings = PyNone
    /\ pc = "idle"
    /\ process = PyNone
    /\ command_line = PyNone
    /\ pending = NoCall
    /\ child = "none"
    /\ tool = FALSE
    /\ last = NoCall
    /\ established = FALSE
    /\ \E c \in PairClasses :
          pair = [peer_cls |-> c, peer_settings |-> PyNone, peer_id |-> NoId,
                  self_id |-> NoId,
                  class_common |-> [k \in PairClasses |-> common_settings(k)],
                  class_registry |-> [k \in PairClasses |-> option_registry(k)],
                  acted |-> [who |-> "none"]]

\* config(**kwargs) on one of the two instances: the call rebinds or writes the
\* object its own self.settings refers to, and whoever holds that same object
\* sees what was written
PairConfig(who, kwargs) ==
    LET c == IF who = "self" THEN cls ELSE pair.peer_cls
        settings0 == IF who = "self" THEN settings ELSE pair.peer_settings
        id0 == IF who = "self" THEN pair.self_id ELSE pair.peer_id
        live == {IF who = "self" THEN pair.peer_id ELSE pair.self_id}
        r == config(c, settings0, kwargs)
        id == config_object(c, id0, settings0, kwargs, live)
        held(holder, value) == IF holder = id /\ id # NoId THEN r.settings ELSE value
    IN /\ settings' = IF who = "self" THEN r.settings
                      ELSE held(pair.self_id, settings)
       /\ pair' = [peer_cls |-> pair.peer_cls,
                   peer_settings |-> IF who = "peer" THEN r.settings
                                     ELSE held(pair.peer_id, pair.peer_settings),
                   peer_id |-> IF who = "peer" THEN id ELSE pair.peer_id,
                   self_id |-> IF who = "self" THEN id ELSE pair.self_id,
                   class_common |-> [k \in PairClasses |->
                                        held(CommonId(k),
                                             PyDict(pair.class_common[k])).v],
                   class_registry |-> pair.class_registry,
                   acted |-> [who |-> who, settings |-> settings,
                              peer_settings |-> pair.peer_settings]]
       /\ UNCHANGED <<cls, input, input_as_uri, vessels, days, lines, files_to_load,
                      output, output_as_uri, pc, process, command_line, pending,
                      child, tool, last, established>>

\* a config call on the first instance
ConfigureSelf == \E kwargs \in PairKwargSeqs(cls) : PairConfig("self", kwargs)

\* a config call on the second instance
ConfigurePeer == \E kwargs \in PairKwargSeqs(pair.peer_cls) : PairConfig("peer", kwargs)

PairNext ==
    \/ ConfigureSelf
    \/ ConfigurePeer

PairSpec == PairInit /\ [][PairNext]_vars

(***************************************************************************)
(* Vocabulary of the properties.                                           *)
(***************************************************************************)
\* s.startswith(prefix)
StrStartswith(s, prefix) ==
    Len(s) >= Len(prefix) /\ SubSeq(s, 1, Len(prefix)) = prefix

\* the operation has a discriminator
Discriminated == option_key(cls) # PyNone

\* base-settings keys united with the default keys of the registered variant V
VariantKeySet(V) ==
    DictKeys(common_settings(cls)) \cup DictKeys(DictAt(option_registry(cls), V))

\* the default of a key under variant V (the variant's entry wins over the base's)
VariantDefault(V, key) ==
    IF DictHas(DictAt(option_registry(cls), V), key)
    THEN DictAt(DictAt(option_registry(cls), V), key)
    ELSE DictAt(common_settings(cls), key)

\* a config call has just ended, with or without an exception
ConfigEnded == pc = "done" /\ last.call = "config"

\* the update of that call, keys normalised
Update == last.update

\* the value stored under the discriminator key in a settings mapping
Stored(s) ==
    IF Discriminated THEN DictGet(s.v, option_key(cls).v, PyNone) ELSE PyNone

\* the update carries a discriminator value that differs from the stored one
ChangesDiscriminator ==
    /\ has_option_key(cls, Update)
    /\ ~PyEq(Stored(last.before), DictAt(Update, option_key(cls).v))

\* the registry key the update's discriminator value selects, if it selects one
SelectsVariant ==
    /\ has_option_key(cls, Update)
    /\ DictAt(Update, option_key(cls).v).t = "str"
    /\ DictHas(option_registry(cls), StrUpper(DictAt(Update, option_key(cls).v).v))

NewVariant == StrUpper(DictAt(Update, option_key(cls).v).v)

\* the message of an invalid-setting error names the key
NamesKey(exc, key) ==
    /\ exc.type = "CarisBatchError"
    /\ StrStartswith(exc.msg, "Invalid setting: '" \o key \o "' is not a valid option")

\* a path was given to the constructor
HasPath == input # PyNone \/ output # PyNone

\* run() has just ended
RunEnded == pc = "done" /\ last.call = "run"

(***************************************************************************)
(* C1. run() never lets a configuration error escape: when building the    *)
(* command line fails with CarisBatchError during run, run returns the     *)
(* tuple (-1, '', message, command line) instead of raising.               *)
(* The code calls get_cmd() ahead of its try block, so the error escapes.  *)
(***************************************************************************)
C1_RunConvertsConfigurationErrors ==
    (RunEnded /\ get_cmd(Self).exc.type = "CarisBatchError")
        => /\ last.exc = NoExc
           /\ last.ret.t = "tuple"
           /\ last.ret.v[1] = PyInt(-1)
           /\ last.ret.v[2] = PyStr("")

(***************************************************************************)
(* C2. Whenever the instance holds a settings mapping, its key set is      *)
(* exactly the base-settings keys united with the default keys of the      *)
(* selected variant.                                                       *)
(***************************************************************************)
\* the key set is that of a registered variant, and of the variant the stored
\* discriminator value names whenever one is stored
KeySetOfSelectedVariant ==
    \E V \in DictKeys(option_registry(cls)) :
        /\ DictKeys(settings.v) = VariantKeySet(V)
        /\ (Discriminated /\ Stored(settings).t = "str") => V = StrUpper(Stored(settings).v)

C3_DiscriminatorChangeReplaces ==
    (ConfigEnded /\ last.exc = NoExc /\ Truthy(last.before) /\ ChangesDiscriminator)
        => /\ SelectsVariant
           /\ DictKeys(settings.v) = VariantKeySet(NewVariant)
           /\ \A key \in DictKeys(last.before.v) \ VariantKeySet(NewVariant) :
                 ~DictHas(settings.v, key)
           /\ \A key \in DictKeys(settings.v) :
                 DictAt(settings.v, key) =
                    IF DictHas(Update, key) THEN DictAt(Update, key)
                    ELSE VariantDefault(NewVariant, key)

\* a switch dropped keys of the old variant, reset to its default a set key that
\* both variants (and not the base settings) have, and applied a key of its update
C3_Witness ==
    /\ ConfigEnded /\ last.exc = NoExc /\ Truthy(last.before) /\ ChangesDiscriminator
    /\ DictKeys(last.before.v) \ DictKeys(settings.v) # {}
    /\ \E key \in (DictKeys(last.before.v) \cap DictKeys(settings.v))
                      \ DictKeys(common_settings(cls)) :
          /\ Truthy(DictAt(last.before.v, key))
          /\ DictAt(settings.v, key) = PyNone
    /\ \E key \in DictKeys(settings.v) \ {option_key(cls).v} :
          DictHas(Update, key) /\ Truthy(DictAt(settings.v, key))

(***************************************************************************)
(* C4. From a configured instance, a successful config call that omits the *)
(* discriminator key, or supplies the stored value, keeps the key set,     *)
(* changes only the keys named in the update and leaves every other value  *)
(* as it was.                                                              *)
(***************************************************************************)
C4_SameVariantMergesInPlace ==
    (ConfigEnded /\ last.exc = NoExc /\ Truthy(last.before) /\ ~ChangesDiscriminator)
        => /\ DictKeys(settings.v) = DictKeys(last.before.v)
           /\ PyEq(Stored(settings), Stored(last.before))
           /\ \A key \in DictKeys(settings.v) :
                 DictAt(settings.v, key) =
                    IF DictHas(Update, key) THEN DictAt(Update, key)
                    ELSE DictAt(last.before.v, key)

\* an in-place update that repeats the stored discriminator value changed one key
\* and kept the value set earlier for another
C4_Witness ==
    /\ ConfigEnded /\ last.exc = NoExc /\ Truthy(last.before) /\ ~ChangesDiscriminator
    /\ has_option_key(cls, Update)
    /\ settings # last.before
    /\ \E key \in DictKeys(settings.v) :
          /\ ~DictHas(Update, key)
          /\ Truthy(DictAt(settings.v, key))

(***************************************************************************)
(* C5. For every operation, a config call whose discriminator value is not *)
(* a key of the operation's variant registry (after upper-casing) raises   *)
(* the unsupported-option error, and the message names that value.         *)
(* UpdateBandValues declares the discriminator key 'band-type', which the  *)
(* key normalisation of config turns into 'band_type': the value is never  *)
(* looked up and the error names the command instead.                      *)
(***************************************************************************)
\* the discriminator value the caller supplies, whichever way the key is spelled
SuppliedDiscriminator ==
    DictGet(Update, normalize_key(option_key(cls).v), PyNone)

C5_UnsupportedVariantNamesValue ==
    (/\ ConfigEnded
     /\ Discriminated
     /\ SuppliedDiscriminator.t = "str"
     /\ ~DictHas(option_registry(cls), StrUpper(SuppliedDiscriminator.v)))
        => last.exc = CarisBatchError("Unsupported option: " \o SuppliedDiscriminator.v)

(***************************************************************************)
(* C6. For every configured instance, a config call that supplies a key    *)
(* outside the settings' key set raises the invalid-setting error naming   *)
(* that key, and the key is never added to the settings mapping.           *)
(***************************************************************************)
\* C6 as stated: the key set is the one the instance holds when the call is made
\* (read on the calls whose discriminator value, if any, is a registered one)
C6_Original ==
    (ConfigEnded /\ Truthy(last.before) /\ (ChangesDiscriminator => SelectsVariant))
        => \A key \in DictKeys(Update) \ DictKeys(last.before.v) :
              /\ NamesKey(last.exc, key)
              /\ settings.t = "dict" => ~DictHas(settings.v, key)

\* the key set in force once the call has selected its variant
KeysInForce ==
    IF ChangesDiscriminator THEN VariantKeySet(NewVariant) ELSE DictKeys(last.before.v)

\* the positions of the update whose key is outside the key set in force
InvalidPositions ==
    LET update == Update
        keys == KeysInForce
    IN {i \in 1..Len(update) : update[i].k \notin keys}

\* C6 amended: the key set is the one in force once the call has selected its
\* variant, and the error names the first offending key of the update
C6_InvalidKeyRejected ==
    (/\ ConfigEnded
     /\ Truthy(last.before)
     /\ ChangesDiscriminator => SelectsVariant
     /\ InvalidPositions # {})
        => LET update == Update
               invalid == InvalidPositions
           IN /\ NamesKey(last.exc,
                          update[CHOOSE i \in invalid : \A j \in invalid : i <= j].k)
              /\ settings.t = "dict"
              /\ \A i \in invalid : ~DictHas(settings.v, update[i].k)

\* a call switched the variant and was rejected for a key of the old variant, and
\* a call was rejected for the first of two offending keys
C6_Witness ==
    /\ ConfigEnded /\ Truthy(last.before)
    /\ ChangesDiscriminator => SelectsVariant
    /\ \/ /\ ChangesDiscriminator
          /\ \E i \in InvalidPositions : DictHas(last.before.v, Update[i].k)
       \/ Cardinality(InvalidPositions) = 2
    /\ last.exc.type = "CarisBatchError"
    /\ InvalidPositions # {}

C8_StreamsClosedOnExit ==
    (RunEnded /\ last.process # PyNone)
        => last.process.stdout_closed /\ last.process.stderr_closed

\* run has raised out of communicate() with a child started
C8_Witness ==
    /\ RunEnded /\ last.process # PyNone
    /\ last.exc.type = "UnicodeDecodeError"
    /\ ~last.timed_out

(***************************************************************************)
(* C9. get_cmd() on an instance for which neither input nor output has     *)
(* been set raises the not-configured error, whatever the settings are.    *)
(***************************************************************************)
GetCmdEnded == pc = "done" /\ last.call = "get_cmd"

C9_NoPathsNotConfigured ==
    (GetCmdEnded /\ input = PyNone /\ output = PyNone)
        => last.exc = CarisBatchError("Input and/or output are not configured")

\* get_cmd was called without paths on a configured instance
C9_Witness ==
    /\ GetCmdEnded /\ input = PyNone /\ output = PyNone
    /\ Truthy(settings)
    /\ last.exc.type = "CarisBatchError"

(***************************************************************************)
(* C10. For an operation that has a discriminator, get_cmd() with an input *)
(* or output set raises the settings-not-configured error in every state   *)
(* in which no settings were established: before any config call, and      *)
(* after config calls that all failed.                                     *)
(* A config call that fails on an invalid key has already stored the       *)
(* variant's mapping, so get_cmd() builds a command line after it.         *)
(***************************************************************************)
C10_UnconfiguredGetCmdFails ==
    (GetCmdEnded /\ Discriminated /\ HasPath /\ ~established)
        => last.exc = CarisBatchError("Settings are not configured")

(***************************************************************************)
(* Vocabulary of the command-line properties.                              *)
(***************************************************************************)
\* get_cmd() has just returned a command line
GetCmdReturned == GetCmdEnded /\ last.exc = NoExc

\* the settings that held a truthy value when get_cmd was called, in mapping order
TruthyItems == SelectSeq(last.before.v, LAMBDA it : Truthy(it.v))

RECURSIVE Flatten(_)
Flatten(groups) == IF groups = <<>> THEN <<>> ELSE groups[1] \o Flatten(Tail(groups))

\* a command line made of the prefix, the command name and four runs of tokens
Assembled(opts, files, inp, out) ==
    StrJoin(" ", <<"carisbatch --run", command(cls)>> \o opts \o files \o inp \o out)

\* the tokens the code's handlers give each truthy setting, one group per setting
HandlerGroups == [i \in 1..Len(TruthyItems) |->
                     dispatch(TruthyItems[i].k, TruthyItems[i].v).args]

\* the auxiliary files, quoted, in list order
QuotedFiles == [i \in 1..Len(files_to_load) |-> quoted(PyToStr(files_to_load[i]))]

\* the token of the input path and of the output path as the code renders them;
\* none for a path that is not set
InputToken ==
    IF input = PyNone THEN <<>>
    ELSE proc_path(input, input_as_uri, vessels, days, lines).args

OutputToken ==
    IF output = PyNone THEN <<>>
    ELSE proc_path(output, output_as_uri, PyNone, PyNone, PyNone).args

\* a token in double quotes
IsQuoted(tok) == Len(tok) >= 2 /\ Head(tok) = "\"" /\ StrEndswith(tok, "\"")

(***************************************************************************)
(* C11. The command line get_cmd returns is the prefix 'carisbatch --run', *)
(* the command name, one group of option arguments per truthy setting in   *)
(* mapping order, each led by '--' and the key with hyphens for            *)
(* underscores, then the quoted auxiliary files in list order, then the    *)
(* quoted input path, then the quoted output path; a path that is not set  *)
(* contributes no token.                                                   *)
(***************************************************************************)
C11_CommandLineOrder ==
    GetCmdReturned
        => /\ last.ret = PyStr(Assembled(Flatten(HandlerGroups), QuotedFiles,
                                         InputToken, OutputToken))
           /\ \A i \in 1..Len(TruthyItems) :
                 /\ HandlerGroups[i] # <<>>
                 /\ StrStartswith(HandlerGroups[i][1],
                                  "--" \o StrReplace(TruthyItems[i].k, "_", "-"))
           /\ \A tok \in {InputToken[i] : i \in 1..Len(InputToken)}
                        \cup {OutputToken[i] : i \in 1..Len(OutputToken)} : IsQuoted(tok)

\* a command line with two option groups, an auxiliary file and both paths
C11_Witness ==
    /\ GetCmdReturned
    /\ Len(TruthyItems) >= 2
    /\ files_to_load # <<>>
    /\ input # PyNone /\ output # PyNone

(***************************************************************************)
(* C12. For every settings key of every operation, keys of the repeatable  *)
(* set included, get_cmd emits nothing when the value is None, empty, zero *)
(* or False, and exactly one bare flag token '--<key-with-hyphens>', with  *)
(* no value, when the value is boolean True.                               *)
(* The code sends every truthy value of a repeatable key to the repeatable *)
(* handler, which renders True as the flag followed by the value "True".   *)
(***************************************************************************)
\* the group C12 gives a setting: none for a falsy value, the bare flag for True;
\* any other value as the code's handlers render it
C12_Group(key, value) ==
    IF ~Truthy(value) THEN <<>>
    ELSE IF value = PyBool(TRUE) THEN <<flag(key)>>
    ELSE dispatch(key, value).args

C12_FalsyOmittedTrueBareFlag ==
    GetCmdReturned
        => last.ret = PyStr(Assembled(
                          Flatten([i \in 1..Len(last.before.v) |->
                                      C12_Group(last.before.v[i].k, last.before.v[i].v)]),
                          QuotedFiles, InputToken, OutputToken))

(***************************************************************************)
(* C13. For every key of the repeatable set, a truthy value renders as one *)
(* flag token followed by one quoted token per value, a single scalar      *)
(* being wrapped into a one-element sequence first.                        *)
(***************************************************************************)
\* the values of a setting: the elements of a sequence, or the scalar alone
ValuesOf(value) == IF value.t = "list" THEN value.v ELSE <<value>>

\* C13 as stated: the flag once, then the quoted values
C13_StatedGroup(key, value) ==
    <<"--" \o StrReplace(key, "_", "-")>>
        \o [i \in 1..Len(ValuesOf(value)) |-> "\"" \o PyToStr(ValuesOf(value)[i]) \o "\""]

\* C13 amended: the flag ahead of each quoted value
C13_AmendedGroup(key, value) ==
    Flatten([i \in 1..Len(ValuesOf(value)) |->
                <<"--" \o StrReplace(key, "_", "-"),
                  "\"" \o PyToStr(ValuesOf(value)[i]) \o "\"">>])

\* the command line whose repeatable keys are rendered by Group and whose other
\* keys are rendered by the code's handlers
C13_Line(Group(_, _)) ==
    Assembled(Flatten([i \in 1..Len(TruthyItems) |->
                          IF TruthyItems[i].k \in repeatable_args
                          THEN Group(TruthyItems[i].k, TruthyItems[i].v)
                          ELSE dispatch(TruthyItems[i].k, TruthyItems[i].v).args]),
              QuotedFiles, InputToken, OutputToken)

\* C13 as stated: a repeatable key renders as one flag followed by one quoted
\* token per value
C13_Original == GetCmdReturned => last.ret = PyStr(C13_Line(C13_StatedGroup))

\* C13 amended: a truthy value of a repeatable key renders, for each of its
\* values in order, as the flag followed by that value quoted; a single scalar
\* is one value
C13_RepeatableFlagPerValue == GetCmdReturned => last.ret = PyStr(C13_Line(C13_AmendedGroup))

\* a command line with a repeatable key that holds two values and another that
\* holds a scalar
C13_Witness ==
    /\ GetCmdReturned
    /\ \E i \in 1..Len(TruthyItems) :
          /\ TruthyItems[i].k \in repeatable_args
          /\ TruthyItems[i].v.t = "list" /\ Len(TruthyItems[i].v.v) = 2
    /\ \E i \in 1..Len(TruthyItems) :
          TruthyItems[i].k \in repeatable_args /\ TruthyItems[i].v.t # "list"

(***************************************************************************)
(* C14. An input rendered as a URI that ends in '.hips' gets the suffix    *)
(* '?' and the ';'-separated terms 'Param=value' in the order Vessel, Day, *)
(* Line, one term per value; a selector with no value gives no term, and   *)
(* no selector with a value gives no '?'.  Vessel=['A','B'] with           *)
(* Day='2024-01-01' gives '?Vessel=A;Vessel=B;Day=2024-01-01'.  A path     *)
(* that is not rendered as a URI, or does not end in '.hips', gets no      *)
(* suffix.                                                                 *)
(***************************************************************************)
\* a path as a plain string or as a file URI
Rendered(path, as_uri) ==
    IF as_uri THEN "file://" \o PathStr(path.v) ELSE PathStr(path.v)

\* the terms of one selector: none when it has no value, else one per value
SelectorTerms(param, selector) ==
    IF ~Truthy(selector) THEN <<>>
    ELSE [i \in 1..Len(ValuesOf(selector)) |->
             param \o "=" \o PyToStr(ValuesOf(selector)[i])]

\* the suffix of a project-file URI under the three selectors
QuerySuffix(vessel, day, line) ==
    LET terms == SelectorTerms("Vessel", vessel) \o SelectorTerms("Day", day)
                    \o SelectorTerms("Line", line)
    IN IF terms = <<>> THEN "" ELSE "?" \o StrJoin(";", terms)

\* the token of a path that carries the suffix when it is a project-file URI
SuffixedToken(path, as_uri, vessel, day, line) ==
    IF as_uri /\ StrEndswith(Rendered(path, as_uri), ".hips")
    THEN "\"" \o Rendered(path, as_uri) \o QuerySuffix(vessel, day, line) \o "\""
    ELSE "\"" \o Rendered(path, as_uri) \o "\""

C14_InputQuerySuffix ==
    (GetCmdReturned /\ Truthy(input))
        => /\ last.ret = PyStr(Assembled(Flatten(HandlerGroups), QuotedFiles,
                                <<SuffixedToken(input, input_as_uri, vessels, days, lines)>>,
                                OutputToken))
           /\ (/\ input = PyStr("/data/p.hips") /\ input_as_uri
               /\ vessels = PyList(<<PyStr("A"), PyStr("B")>>)
               /\ days = PyStr("2024-01-01") /\ lines = PyNone)
                 => InputToken
                      = <<"\"file:///data/p.hips?Vessel=A;Vessel=B;Day=2024-01-01\"">>

\* a command line whose input is a project-file URI under all three selectors,
\* two of them with several values
C14_Witness ==
    /\ GetCmdReturned
    /\ Truthy(input) /\ input_as_uri /\ StrEndswith(input.v, ".hips")
    /\ Truthy(vessels) /\ days.t = "list" /\ lines.t = "list"

(***************************************************************************)
(* C15. The project-file query suffix applies to the output as to the      *)
(* input: an output rendered as a URI that ends in '.hips', on an instance *)
(* with vessel/day/line selectors, carries the suffix                      *)
(* '?Vessel=..;Day=..;Line=..' in the command line.                        *)
(* get_cmd passes the selectors to proc_path for the input only, so the    *)
(* output never carries a suffix.                                          *)
(***************************************************************************)
C15_OutputQuerySuffix ==
    (GetCmdReturned /\ Truthy(output))
        => last.ret = PyStr(Assembled(Flatten(HandlerGroups), QuotedFiles, InputToken,
                               <<SuffixedToken(output, output_as_uri, vessels, days, lines)>>))

(***************************************************************************)
(* C16. For every operation without a discriminator, the first config      *)
(* call, with no keys or with keys of its base settings, succeeds: the     *)
(* lookup by the upper-cased command name finds the operation's registry   *)
(* entry and no unsupported-option error is raised.                        *)
(* GridPointsUsingCUBE registers its entry as 'GRIDPOINTUSINGCUBE', which  *)
(* is not its command name in upper case.                                  *)
(***************************************************************************)
C16_UndiscriminatedFirstConfigSucceeds ==
    (/\ ConfigEnded /\ ~Discriminated /\ last.before = PyNone
     /\ DictKeys(Update) \subseteq DictKeys(common_settings(cls)))
        => /\ last.exc = NoExc
           /\ DictHas(option_registry(cls), StrUpper(command(cls)))

(***************************************************************************)
(* C17. For every operation with a discriminator, a first config call that *)
(* supplies the discriminator key, spelled with underscores or with        *)
(* hyphens, with a value registered for the operation in any letter case   *)
(* (and no key foreign to that variant) selects the variant without        *)
(* raising: the settings are the base settings united with the variant's   *)
(* defaults, under the values of the call.                                 *)
(* UpdateBandValues declares _option_key = 'band-type'; config looks for   *)
(* it among keys it has just rewritten with underscores and never finds it.*)
(***************************************************************************)
\* the registry key the supplied discriminator value names
SuppliedVariant == StrUpper(SuppliedDiscriminator.v)

C17_FirstConfigSelectsVariant ==
    (/\ ConfigEnded /\ Discriminated /\ last.before = PyNone
     /\ SuppliedDiscriminator.t = "str"
     /\ DictHas(option_registry(cls), SuppliedVariant)
     /\ DictKeys(Update) \subseteq VariantKeySet(SuppliedVariant))
        => /\ last.exc = NoExc
           /\ DictKeys(settings.v) = VariantKeySet(SuppliedVariant)
           /\ \A key \in DictKeys(settings.v) :
                 DictAt(settings.v, key) =
                    IF DictHas(Update, key) THEN DictAt(Update, key)
                    ELSE VariantDefault(SuppliedVariant, key)

(***************************************************************************)
(* C18. config normalises the keys of an update before use: the hyphen and *)
(* the underscore spelling of a key are interchangeable, and exactly one   *)
(* leading separator is stripped from a key, no more.                      *)
(***************************************************************************)
\* the key C18 says config uses: hyphens as underscores, one leading separator off
C18_StatedKey(key) ==
    IF key # "" /\ Head(key) \in {"-", "_"}
    THEN StrReplace(Tail(key), "-", "_")
    ELSE StrReplace(key, "-", "_")

RECURSIVE C18_AmendedKey(_)
\* the key of the amended claim: hyphens as underscores, every leading separator off
C18_AmendedKey(key) ==
    IF key # "" /\ Head(key) \in {"-", "_"}
    THEN C18_AmendedKey(Tail(key))
    ELSE StrReplace(key, "-", "_")

\* an update of a configured instance that does not touch the discriminator has
\* the effect of the same update under the keys KeyOf gives: each value is stored
\* under its key when all keys are settings keys, and the first key that is not
\* one is reported
C18_Effect(KeyOf(_)) ==
    LET keys == [i \in 1..Len(last.kwargs) |-> KeyOf(last.kwargs[i].k)]
        foreign == {i \in 1..Len(keys) : ~DictHas(last.before.v, keys[i])}
    IN (/\ ConfigEnded /\ Truthy(last.before)
        /\ \A i \in 1..Len(keys) : ~(Discriminated /\ keys[i] = option_key(cls).v))
          => IF foreign = {}
             THEN /\ last.exc = NoExc
                  /\ DictKeys(settings.v) = DictKeys(last.before.v)
                  /\ \A key \in DictKeys(settings.v) :
                        LET at == {i \in 1..Len(keys) : keys[i] = key}
                        IN DictAt(settings.v, key) =
                              IF at = {} THEN DictAt(last.before.v, key)
                              ELSE last.kwargs[CHOOSE i \in at : \A j \in at : j <= i].v
             ELSE NamesKey(last.exc,
                           keys[CHOOSE i \in foreign : \A j \in foreign : i <= j])

\* C18 as stated: one leading separator is stripped, no more
C18_Original == C18_Effect(C18_StatedKey)

\* C18 amended: config uses each key with its hyphens replaced by underscores and
\* every leading separator stripped, so the two spellings are interchangeable
C18_KeysNormalised == C18_Effect(C18_AmendedKey)

\* a key written with two leading hyphens and a hyphen inside has set a setting
C18_Witness ==
    /\ ConfigEnded /\ Truthy(last.before) /\ last.exc = NoExc
    /\ settings # last.before
    /\ \E i \in 1..Len(last.kwargs) :
          /\ StrStartswith(last.kwargs[i].k, "--")
          /\ last.kwargs[i].k # StrReplace(last.kwargs[i].k, "-", "_")
          /\ DictGet(settings.v, C18_AmendedKey(last.kwargs[i].k), PyNone)
                = last.kwargs[i].v

(***************************************************************************)
(* C19. ThinPoints configured with method='RANDOM', percentage=10 has      *)
(* settings exactly {method: 'RANDOM', include_band: None, comments: None, *)
(* percentage: 10}; a following config with method='MINIMUM_DISTANCE',     *)
(* minimum_distance=5 yields exactly {method: 'MINIMUM_DISTANCE',          *)
(* include_band: None, comments: None, minimum_distance: 5, scale: None},  *)
(* and 'percentage' is no longer a key.                                    *)
(***************************************************************************)
C19_Random ==
    PyDict(<<Item("method", PyStr("RANDOM")), Item("include_band", PyNone),
             Item("comments", PyNone), Item("percentage", PyInt(10))>>)

C19_MinimumDistance ==
    PyDict(<<Item("method", PyStr("MINIMUM_DISTANCE")), Item("include_band", PyNone),
             Item("comments", PyNone), Item("minimum_distance", PyInt(5)),
             Item("scale", PyNone)>>)

C19_ThinPointsExample ==
    (ConfigEnded /\ cls = "ThinPoints")
        => /\ (/\ last.before = PyNone
               /\ last.kwargs = <<Item("method", PyStr("RANDOM")),
                                  Item("percentage", PyInt(10))>>)
                 => (last.exc = NoExc /\ settings = C19_Random)
           /\ (/\ last.before = C19_Random
               /\ last.kwargs = <<Item("method", PyStr("MINIMUM_DISTANCE")),
                                  Item("minimum_distance", PyInt(5))>>)
                 => /\ last.exc = NoExc
                    /\ settings = C19_MinimumDistance
                    /\ ~DictHas(settings.v, "percentage")

\* the second call of the example has just ended
C19_Witness ==
    /\ ConfigEnded /\ cls = "ThinPoints"
    /\ last.before = C19_Random
    /\ last.kwargs = <<Item("method", PyStr("MINIMUM_DISTANCE")),
                       Item("minimum_distance", PyInt(5))>>
    /\ settings = C19_MinimumDistance

(***************************************************************************)
(* C20. run(timeout) always returns: once the timeout has elapsed and the  *)
(* child has been killed, run returns the timeout sentinel without waiting *)
(* for the external tool, which the shell may have started as its own      *)
(* child and which may still hold the output pipes, to finish on its own.  *)
(* Stated on the step that follows the kill: whenever run stands at the    *)
(* communicate() of its timeout handler, that call can return.             *)
(* The code kills the shell only; communicate() reads both pipes to end of *)
(* file, which comes when the tool that inherited them lets go of them.    *)
(***************************************************************************)
C20_ReturnsOnceKilled == (pc = "drain" /\ child = "killed") => ENABLED Drain

(***************************************************************************)
(* C21. Whenever config rejects a key on an operation that has a           *)
(* discriminator, the invalid-setting error names the offending key and    *)
(* the label of the active variant: the discriminator value in force,      *)
(* which is the one the same call supplies when it supplies one, for every *)
(* ordering of the keys in the update.                                     *)
(* _update_settings reads the label from the mapping while it applies the  *)
(* keys in order: an offending key written ahead of the discriminator key  *)
(* is reported against the default the rebuilt mapping holds, None.        *)
(***************************************************************************)
\* the discriminator value in force during the call
C21_ActiveLabel ==
    IF has_option_key(cls, Update) THEN DictAt(Update, option_key(cls).v)
    ELSE DictGet(last.before.v, option_key(cls).v, PyNone)

C21_InvalidSettingNamesKeyAndVariant ==
    (/\ ConfigEnded /\ Discriminated
     /\ last.exc.type = "CarisBatchError"
     /\ StrStartswith(last.exc.msg, "Invalid setting"))
        => \E i \in 1..Len(Update) :
              /\ ~DictHas(settings.v, Update[i].k)
              /\ last.exc.msg = "Invalid setting: '" \o Update[i].k
                                   \o "' is not a valid option for "
                                   \o PyToStr(C21_ActiveLabel)

SettingsAsBefore ==
    IF Truthy(last.before) THEN settings = last.before ELSE ~Truthy(settings)

C23_UnsupportedOptionKeepsSettings ==
    (/\ ConfigEnded
     /\ last.exc.type = "CarisBatchError"
     /\ StrStartswith(last.exc.msg, "Unsupported option"))
        => SettingsAsBefore

(***************************************************************************)
(* C24. A config call is all-or-nothing: when it raises the                *)
(* invalid-setting error for one key, none of the other keys of the same   *)
(* call has been applied and the settings mapping equals the one held      *)
(* before the call.                                                        *)
(* _update_settings assigns the keys one by one and raises at the first    *)
(* key it does not know: the keys ahead of it stay applied, and a mapping  *)
(* rebuilt for the call stays in place.                                    *)
(***************************************************************************)
C24_InvalidSettingAppliesNothing ==
    (/\ ConfigEnded
     /\ last.exc.type = "CarisBatchError"
     /\ StrStartswith(last.exc.msg, "Invalid setting"))
        => SettingsAsBefore

(***************************************************************************)
(* C25. For an operation that has no discriminator, get_cmd() called with  *)
(* an input or output set but before any config call returns the prefix,   *)
(* the command name and the paths, with no option arguments; it does not   *)
(* fail.                                                                   *)
(* __init__ leaves self.settings None and get_cmd iterates                 *)
(* self.settings.items() whenever the operation has no discriminator.      *)
(***************************************************************************)
C25_UnconfiguredUndiscriminatedGetCmd ==
    (GetCmdEnded /\ ~Discriminated /\ HasPath /\ settings = PyNone)
        => /\ last.exc = NoExc
           /\ last.ret = PyStr(Assembled(<<>>, QuotedFiles, InputToken, OutputToken))

(***************************************************************************)
(* C26. get_cmd() is read-only and repeatable: it leaves the settings      *)
(* mapping as it found it, and a second get_cmd with no config call in     *)
(* between returns the same string, for every setting value type the       *)
(* engine accepts (bool, int, float, str, list, tuple, generator).         *)
(* A handler iterates the value it is given: a generator is exhausted by   *)
(* the first get_cmd, and the next one renders the flag with no values.    *)
(***************************************************************************)
C26_GetCmdReadOnlyRepeatable ==
    GetCmdReturned
        => /\ settings = last.before
           /\ get_cmd(Self).exc = NoExc
           /\ get_cmd(Self).ret = last.ret

(***************************************************************************)
(* C27. A config call whose discriminator value differs from the stored    *)
(* one only in letter case names the variant already active and is treated *)
(* as the same variant: the settings are not reset, and every value set    *)
(* earlier is kept unless the call supplies it.                            *)
(* config compares the two values as they are written, so 'random' after   *)
(* 'RANDOM' rebuilds the mapping from the defaults.                        *)
(***************************************************************************)
\* the update names the stored variant in another letter case
SameVariantOtherCase ==
    /\ has_option_key(cls, Update)
    /\ Truthy(last.before)
    /\ Stored(last.before).t = "str"
    /\ DictAt(Update, option_key(cls).v).t = "str"
    /\ Stored(last.before) # DictAt(Update, option_key(cls).v)
    /\ StrUpper(Stored(last.before).v) = StrUpper(DictAt(Update, option_key(cls).v).v)

C27_LetterCaseKeepsSettings ==
    (ConfigEnded /\ last.exc = NoExc /\ SameVariantOtherCase)
        => /\ DictKeys(settings.v) = DictKeys(last.before.v)
           /\ \A key \in DictKeys(settings.v) \ DictKeys(Update) :
                 DictAt(settings.v, key) = DictAt(last.before.v, key)

(***************************************************************************)
(* C28. In every reachable state in which an operation with a              *)
(* discriminator holds a non-empty settings mapping, the value stored      *)
(* under the discriminator key, upper-cased, is a key of the variant       *)
(* registry, and the mapping's key set is the base keys united with the    *)
(* default keys of exactly that variant.                                   *)
(* A call rejected for a key written ahead of the discriminator key leaves *)
(* the new variant's mapping with None stored under the discriminator.     *)
(***************************************************************************)
C28_DiscriminatorInStep ==
    (Discriminated /\ Truthy(settings))
        => /\ Stored(settings).t = "str"
           /\ DictHas(option_registry(cls), StrUpper(Stored(settings).v))
           /\ DictKeys(settings.v) = VariantKeySet(StrUpper(Stored(settings).v))

(***************************************************************************)
(* C29. When a key outside the repeatable set holds a truthy value of a    *)
(* type other than bool, int, float, str, list, tuple or generator (a path *)
(* object, a dict), get_cmd fails with the dispatcher's ValueError, which  *)
(* is not a configuration error; run() does not turn it into a sentinel    *)
(* tuple, and it reaches the caller.                                       *)
(***************************************************************************)
\* the positions of the settings read by the call whose value no handler is
\* registered for
Unhandled ==
    IF last.before.t # "dict" THEN {}
    ELSE {i \in 1..Len(last.before.v) :
            /\ Truthy(last.before.v[i].v)
            /\ last.before.v[i].k \notin repeatable_args
            /\ last.before.v[i].v.t \notin
                  {"bool", "int", "float", "str", "list", "tuple", "generator"}}

\* the call has raised the dispatcher's ValueError for the first such value
RaisedNoHandler ==
    /\ last.ret = PyNone
    /\ last.exc.type = "ValueError"
    /\ last.exc.msg =
          "No handler registered for command: <class '"
             \o last.before.v[CHOOSE i \in Unhandled : \A j \in Unhandled : i <= j].v.t
             \o "'>"

\* C29 as stated: on every instance that holds such a value
C29_Original ==
    ((GetCmdEnded \/ RunEnded) /\ Unhandled # {}) => RaisedNoHandler

\* C29 amended: on an instance with an input or output set, get_cmd and run
\* raise the dispatcher's ValueError when a setting holds such a value
C29_UnhandledTypePropagates ==
    ((GetCmdEnded \/ RunEnded) /\ HasPath /\ Unhandled # {}) => RaisedNoHandler

\* run() has raised the ValueError for a path object held by a setting
C29_Witness ==
    /\ RunEnded /\ HasPath
    /\ \E i \in Unhandled : last.before.v[i].v.t = "pathlib.PosixPath"
    /\ last.exc.type = "ValueError"

(***************************************************************************)
(* C30. On an unconfigured instance of an operation that has a             *)
(* discriminator, a config call that does not supply the discriminator key *)
(* fails with the unsupported-option error naming the command name,        *)
(* applies none of the supplied keys and leaves the instance unconfigured, *)
(* so that a following get_cmd raises the settings-not-configured error.   *)
(***************************************************************************)
SettingsNotConfigured == CarisBatchError("Settings are not configured")

\* a config call without the discriminator key has just ended on an instance that
\* held no settings
UnconfiguredCallWithoutKey ==
    /\ ConfigEnded /\ Discriminated
    /\ ~Truthy(last.before)
    /\ ~has_option_key(cls, Update)

\* the outcome C30 gives that call; Following is what a get_cmd made next raises
C30_Outcome(Following) ==
    /\ UnconfiguredCallWithoutKey
          => /\ last.exc = CarisBatchError("Unsupported option: " \o command(cls))
             /\ ~Truthy(settings)
             /\ Following => get_cmd(Self).exc = SettingsNotConfigured
    /\ (GetCmdEnded /\ Discriminated /\ last.before = PyDict(<<>>) /\ Following)
          => last.exc = SettingsNotConfigured

\* C30 as stated: the following get_cmd raises the settings-not-configured error
\* on every such instance
C30_Original == C30_Outcome(TRUE)

\* C30 amended: the following get_cmd raises the settings-not-configured error when
\* an input or output is set
C30_FirstCallWithoutDiscriminator == C30_Outcome(HasPath)

\* get_cmd has raised the settings-not-configured error on an instance with a
\* path set that a failed first config call has left with the empty mapping
C30_Witness ==
    /\ GetCmdEnded /\ Discriminated /\ HasPath
    /\ last.before = PyDict(<<>>)
    /\ last.exc = SettingsNotConfigured

====
